---------------------------- MODULE Spec2Model ----------------------------
(***************************************************************************)
(* Model of hardhat-core's compiler-to-model.ts: building the source model *)
(* (files, contracts, functions, inheritance) from the compiler's AST      *)
(* output, decoding each contract's bytecodes, and the selector correction *)
(* pass.                                                                   *)
(*                                                                         *)
(* One behaviour is one call of createModelsAndDecodeBytecodes on one      *)
(* compiler output.  The compiler output is drawn in Init from bounded     *)
(* families; the actions are the loop iterations and passes of the call.   *)
(***************************************************************************)
EXTENDS Integers, Sequences, FiniteSets, TLC

\* ------------------------------------------------------------------ bounds
\* Most parameters of a function definition node.
MaxParams == 1
\* Most entries of a contract's ABI array in the function family.
MaxAbi == 2
\* Most ordinary code bytes before, and after, a library placeholder.
MaxPad == 1
\* Longest immutable-reference range.
MaxRangeLen == 2
\* Number of contract definition nodes in the inheritance family.
NumContracts == 3

\* A library placeholder stands for one address.
AddressLen == 20

\* ------------------------------------------------------------ JS values
\* The absent value of a string-valued field.
Undefined == "undefined"
\* An optional non-string value: <<>> is undefined, <<v>> is v.
None == <<>>
Some(v) == <<v>>
IsSome(o) == Len(o) = 1
Get(o) == o[1]

RECURSIVE SeqFilterIdx(_, _, _)
\* The indices i >= from of s with keep[i], ascending.
SeqFilterIdx(keep, from, n) ==
  IF from > n THEN <<>>
  ELSE IF keep[from] THEN <<from>> \o SeqFilterIdx(keep, from + 1, n)
  ELSE SeqFilterIdx(keep, from + 1, n)

\* Array.prototype.filter: the elements of s satisfying Test, in order.
Filter(s, Test(_)) ==
  LET idx == SeqFilterIdx([i \in 1..Len(s) |-> Test(s[i])], 1, Len(s))
  IN  [k \in 1..Len(idx) |-> s[idx[k]]]

\* Array.prototype.map.
Map(s, F(_)) == [i \in 1..Len(s) |-> F(s[i])]

Range(s) == {s[i] : i \in 1..Len(s)}

RECURSIVE Flatten(_)
\* [...a, ...b, ...] of a sequence of sequences.
Flatten(ss) == IF ss = <<>> THEN <<>> ELSE Head(ss) \o Flatten(Tail(ss))

RECURSIVE SortedSeq(_)
\* The numbers of a finite set, ascending.
SortedSeq(S) ==
  IF S = {} THEN <<>>
  ELSE LET m == CHOOSE x \in S : \A y \in S : x <= y
       IN  <<m>> \o SortedSeq(S \ {m})

\* All sequences over S of length at most n.
SeqsUpTo(S, n) == UNION {[1..k -> S] : k \in 0..n}

\* ------------------------------------------------- selectors and ABI types
\* ethereumjs-abi's elementaryName: the aliases are widened, the rest kept.
ElementaryName(t) ==
  IF t = "uint" THEN "uint256" ELSE IF t = "int" THEN "int256" ELSE t

\* abi.methodID(name, types): the first four bytes of the Keccak hash of
\* the canonical signature name(t1,...,tn).  The hash is taken to be
\* collision free, so the selector is represented by the signature hashed.
MethodID(name, types) == <<name>> \o Map(types, ElementaryName)

\* Buffer.from(hex, "hex") of the compiler's functionSelector.  The AST
\* carries the hex digits of a selector; the digits of a selector are
\* represented by a one-field record around it.
BufferFromHex(hex) == hex.digitsOf
HexOf(selector) == [digitsOf |-> selector]

\* toCanonicalAbiType of @nomicfoundation/edr.
ToCanonicalAbiType(t) ==
  IF t = "uint" THEN "uint256" ELSE IF t = "int" THEN "int256" ELSE t

\* A type string is kept as its first space-separated word and its text.
StartsWithWord(typeString, word) ==
  typeString.firstWord = word /\ typeString.text # word

\* isContractType / isEnumType: a user defined type name whose type string
\* starts with "contract " / "enum ".
IsUserDefined(param) ==
  param.typeName.nodeType \in {"UserDefinedTypeName", "Identifier"}

IsContractType(param) ==
  IsUserDefined(param)
    /\ StartsWithWord(param.typeDescriptions.typeString, "contract")

IsEnumType(param) ==
  IsUserDefined(param)
    /\ StartsWithWord(param.typeDescriptions.typeString, "enum")

\* The contribution of one parameter to the computed signature.
ParamCanonicalType(param) ==
  IF IsContractType(param) THEN "address"
  ELSE IF IsEnumType(param) THEN "uint8"
  ELSE IF param.typeName.nodeType \in
            {"ArrayTypeName", "FunctionTypeName", "Mapping"}
       THEN param.typeDescriptions.typeString.text
  ELSE ToCanonicalAbiType(param.typeName.name)

\* Mutant of astFunctionDefinitionToSelector: the selector is always
\* computed from the parameters.
astFunctionDefinitionToSelectorComputed(functionDefinition) ==
  MethodID(functionDefinition.name,
           Map(functionDefinition.parameters, ParamCanonicalType))

astFunctionDefinitionToSelector(functionDefinition) ==
  IF IsSome(functionDefinition.functionSelector)
  THEN BufferFromHex(Get(functionDefinition.functionSelector))
  ELSE MethodID(functionDefinition.name,
                Map(functionDefinition.parameters, ParamCanonicalType))

contractKindToContractType(contractKind) ==
  IF contractKind = "library" THEN "LIBRARY"
  ELSE IF contractKind = "contract" THEN "CONTRACT"
  ELSE Undefined

functionDefinitionKindToFunctionType(kind) ==
  IF kind = "constructor" THEN "CONSTRUCTOR"
  ELSE IF kind = "fallback" THEN "FALLBACK"
  ELSE IF kind = "receive" THEN "RECEIVE"
  ELSE IF kind = "freeFunction" THEN "FREE_FUNCTION"
  ELSE "FUNCTION"

astVisibilityToVisibility(visibility) ==
  IF visibility = "private" THEN "PRIVATE"
  ELSE IF visibility = "internal" THEN "INTERNAL"
  ELSE IF visibility = "public" THEN "PUBLIC"
  ELSE "EXTERNAL"

\* astSrcToSourceLocation: the location of src = start:length:fileIndex in
\* the files registered so far, undefined when the file is not registered.
astSrcToSourceLocation(src, files) ==
  IF src.file \in DOMAIN files
  THEN Some([file |-> src.file, offset |-> src.start, length |-> src.length])
  ELSE None


\* ------------------------------------------------------- the model entities
\* Array.prototype.find: the first element satisfying Test, if any.
Find(s, Test(_)) ==
  LET hits == Filter(s, Test) IN IF hits = <<>> THEN None ELSE Some(hits[1])

\* The model being built: fileIdToSourceFile, contractIdToContract (a Map:
\* its keys in insertion order and its values) and
\* contractIdToLinearizedBaseContractIds.
EmptyModel ==
  [files |-> <<>>, contractIds |-> <<>>, contracts |-> <<>>, linIds |-> <<>>]

\* Map.prototype.set on a Map kept as (keys in insertion order, values).
MapKeysSet(keys, k) == IF k \in Range(keys) THEN keys ELSE Append(keys, k)
MapSet(values, k, v) == (k :> v) @@ values

\* file.addFunction and contract.addLocalFunction.
AddFileFunction(m, fileId, func) ==
  [m EXCEPT !.files[fileId].functions = Append(@, func)]

AddLocalFunction(m, cid, func) ==
  [m EXCEPT !.contracts[cid].localFunctions = Append(@, func)]

\* Mutant of GetsSelector: the function's kind is not looked at.
GetsSelectorWhateverKind(functionType, visibility) ==
  visibility \in {"EXTERNAL", "PUBLIC"}

\* The condition under which a function is given a selector.
GetsSelector(functionType, visibility) ==
  /\ functionType = "FUNCTION"
  /\ visibility \in {"EXTERNAL", "PUBLIC"}

\* Mutant of AbiEntryMatches: any named entry passes, so the first entry
\* of the function's name is taken.
AbiEntryMatchesByName(functionAbi, selector) ==
  functionAbi.name # Undefined

\* The predicate of functionAbis.find: the entry is named and its
\* recomputed selector equals the function's.
AbiEntryMatches(functionAbi, selector) ==
  IF functionAbi.name = Undefined THEN FALSE
  ELSE
    LET functionAbiSelector ==
          MethodID(functionAbi.name,
                   IF IsSome(functionAbi.inputs) THEN Get(functionAbi.inputs)
                   ELSE <<>>)
    IN  IF ~IsSome(selector) THEN FALSE
        ELSE Get(selector) = functionAbiSelector

\* The ContractFunction built for a function definition node, or None when
\* the node is a declaration without a body.
processFunctionDefinitionAstNode(node, files, contract, functionAbis) ==
  IF node.implemented = FALSE THEN None
  ELSE
    LET functionType == functionDefinitionKindToFunctionType(node.kind)
        functionLocation == astSrcToSourceLocation(node.src, files)
        visibility == astVisibilityToVisibility(node.visibility)
        selector ==
          IF GetsSelector(functionType, visibility)
          THEN Some(astFunctionDefinitionToSelector(node))
          ELSE None
        Matches(functionAbi) == AbiEntryMatches(functionAbi, selector)
        matchingFunctionAbi ==
          IF IsSome(functionAbis) THEN Find(Get(functionAbis), Matches)
          ELSE None
        paramTypes ==
          IF IsSome(matchingFunctionAbi)
          THEN Get(matchingFunctionAbi).inputs
          ELSE None
    IN  Some([name |-> node.name,
              type |-> functionType,
              location |-> functionLocation,
              contract |-> contract,
              visibility |-> visibility,
              isPayable |-> (node.stateMutability = "payable"),
              selector |-> selector,
              paramTypes |-> paramTypes])

\* processModifierDefinitionAstNode: a modifier is a function of type
\* MODIFIER with no selector.
processModifierDefinitionAstNode(node, files, contract) ==
  [name |-> node.name,
   type |-> "MODIFIER",
   location |-> astSrcToSourceLocation(node.src, files),
   contract |-> contract,
   visibility |-> "INTERNAL",
   isPayable |-> FALSE,
   selector |-> None,
   paramTypes |-> None]

\* processVariableDeclarationAstNode: a public state variable is a function
\* of type GETTER whose parameter types are those of its ABI entry; any
\* other variable yields nothing.
processVariableDeclarationAstNode(node, files, contract, getterAbi) ==
  IF astVisibilityToVisibility(node.visibility) # "PUBLIC" THEN None
  ELSE Some([name |-> node.name,
             type |-> "GETTER",
             location |-> astSrcToSourceLocation(node.src, files),
             contract |-> contract,
             visibility |-> "PUBLIC",
             isPayable |-> FALSE,
             selector |-> Some(astFunctionDefinitionToSelector(node)),
             paramTypes |-> IF IsSome(getterAbi) THEN Get(getterAbi).inputs
                            ELSE None])

\* The function, if any, that one node nested in a contract yields.
ContractMemberFunction(node, files, cid, contractAbi) ==
  LET SameName(abiEntry) == abiEntry.name = node.name
  IN  IF node.nodeType = "FunctionDefinition"
      THEN processFunctionDefinitionAstNode(
             node, files, Some(cid),
             IF IsSome(contractAbi)
             THEN Some(Filter(Get(contractAbi), SameName)) ELSE None)
      ELSE IF node.nodeType = "ModifierDefinition"
      THEN Some(processModifierDefinitionAstNode(node, files, Some(cid)))
      ELSE IF node.nodeType = "VariableDeclaration"
      THEN processVariableDeclarationAstNode(
             node, files, Some(cid),
             IF IsSome(contractAbi) THEN Find(Get(contractAbi), SameName)
             ELSE None)
      ELSE None

RECURSIVE AddMembers(_, _, _, _, _, _)
\* The loop over contractNode.nodes, from node i on.
AddMembers(m, fileId, cid, nodes, contractAbi, i) ==
  IF i > Len(nodes) THEN m
  ELSE
    LET func == ContractMemberFunction(nodes[i], m.files, cid, contractAbi)
        m1 == IF IsSome(func)
              THEN AddFileFunction(AddLocalFunction(m, cid, Get(func)),
                                   fileId, Get(func))
              ELSE m
    IN  AddMembers(m1, fileId, cid, nodes, contractAbi, i + 1)

processContractAstNode(m, fileId, contractNode, contractType, contractAbi) ==
  LET contract ==
        [name |-> contractNode.name,
         type |-> contractType,
         location |-> astSrcToSourceLocation(contractNode.src, m.files),
         localFunctions |-> <<>>,
         linearizedBaseContracts |-> <<>>,
         customErrors |-> <<>>]
      m1 == [m EXCEPT
               !.contractIds = MapKeysSet(@, contractNode.id),
               !.contracts = MapSet(@, contractNode.id, contract),
               !.linIds = MapSet(@, contractNode.id,
                                 contractNode.linearizedBaseContracts)]
  IN  AddMembers(m1, fileId, contractNode.id, contractNode.nodes,
                 contractAbi, 1)

\* sourceNameToContractToAbi.get(sourceName)?.get(contractName)
ContractAbiOf(output, sourceName, contractName) ==
  IF <<sourceName, contractName>> \in DOMAIN output
  THEN Some(output[<<sourceName, contractName>>].abi)
  ELSE None

\* One top-level node of a source: a modelled contract definition, a free
\* function, or a node that is passed over.
ProcessTopLevelNode(m, source, node, output) ==
  IF node.nodeType = "ContractDefinition"
  THEN LET contractType == contractKindToContractType(node.contractKind)
       IN  IF contractType = Undefined THEN m
           ELSE processContractAstNode(
                  m, source.id, node, contractType,
                  ContractAbiOf(output, source.name, node.name))
  ELSE IF node.nodeType = "FunctionDefinition"
  THEN LET func == processFunctionDefinitionAstNode(node, m.files, None, None)
       IN  IF IsSome(func) THEN AddFileFunction(m, source.id, Get(func))
           ELSE m
  ELSE m

RECURSIVE ProcessNodes(_, _, _, _)
ProcessNodes(m, source, output, i) ==
  IF i > Len(source.nodes) THEN m
  ELSE ProcessNodes(ProcessTopLevelNode(m, source, source.nodes[i], output),
                    source, output, i + 1)

\* One iteration of the loop over compilerOutput.sources: the file is
\* registered, then its nodes are processed.
ProcessSourceEntry(m, source, output) ==
  LET file == [sourceName |-> source.name, content |-> source.content,
               functions |-> <<>>]
      m1 == [m EXCEPT !.files = MapSet(@, source.id, file)]
  IN  ProcessNodes(m1, source, output, 1)

\* contract.addNextLinearizedBaseContract
AddNextLinearizedBaseContract(contract, baseId) ==
  [contract EXCEPT !.linearizedBaseContracts = Append(@, baseId)]

RECURSIVE AppendAncestorsUnresolvedToo(_, _, _, _)
\* Mutant of AppendAncestors: an id that does not resolve is appended too.
AppendAncestorsUnresolvedToo(contracts, cid, inheritanceIds, i) ==
  IF i > Len(inheritanceIds) THEN contracts
  ELSE AppendAncestorsUnresolvedToo(
         [contracts EXCEPT
            ![cid] = AddNextLinearizedBaseContract(@, inheritanceIds[i])],
         cid, inheritanceIds, i + 1)

RECURSIVE AppendAncestors(_, _, _, _)
\* The inner loop of applyContractsInheritance for one contract, from the
\* i-th ancestor id on: an id that is not in the contract map is passed
\* over, a resolved one is appended.
AppendAncestors(contracts, cid, inheritanceIds, i) ==
  IF i > Len(inheritanceIds) THEN contracts
  ELSE
    LET baseId == inheritanceIds[i]
    IN  IF baseId \notin DOMAIN contracts
        THEN AppendAncestors(contracts, cid, inheritanceIds, i + 1)
        ELSE AppendAncestors(
               [contracts EXCEPT
                  ![cid] = AddNextLinearizedBaseContract(@, baseId)],
               cid, inheritanceIds, i + 1)

RECURSIVE applyContractsInheritanceLenient(_, _)
\* Mutant of applyContractsInheritanceFrom: a missing ancestor list is
\* taken as an empty one.
applyContractsInheritanceLenient(m, i) ==
  IF i > Len(m.contractIds) THEN [contracts |-> m.contracts, threw |-> FALSE]
  ELSE
    LET cid == m.contractIds[i]
        inheritanceIds == m.linIds[cid]
    IN  applyContractsInheritanceLenient(
          [m EXCEPT !.contracts =
             AppendAncestors(@, cid,
                             IF IsSome(inheritanceIds) THEN Get(inheritanceIds)
                             ELSE <<>>, 1)],
          i + 1)

RECURSIVE applyContractsInheritanceFrom(_, _)
\* applyContractsInheritance from the i-th contract of the map on.  The
\* result is the contracts and whether iterating a missing ancestor list
\* threw; the contracts before the throw keep their ancestors.
applyContractsInheritanceFrom(m, i) ==
  IF i > Len(m.contractIds) THEN [contracts |-> m.contracts, threw |-> FALSE]
  ELSE
    LET cid == m.contractIds[i]
        inheritanceIds == m.linIds[cid]
    IN  IF ~IsSome(inheritanceIds)
        THEN [contracts |-> m.contracts, threw |-> TRUE]
        ELSE applyContractsInheritanceFrom(
               [m EXCEPT !.contracts =
                  AppendAncestors(@, cid, Get(inheritanceIds), 1)],
               i + 1)

applyContractsInheritance(m) == applyContractsInheritanceFrom(m, 1)

\* ------------------------------------------------------- bytecode decoding
\* The bytes of a bytecode object: an opcode byte, a byte of a library
\* placeholder (not hexadecimal text), a zero byte.
OpByte == "5b"
PlaceholderByte == "__"
ZeroByte == "00"

Min(a, b) == IF a < b THEN a ELSE b

\* getLibraryAddressPositions: the start of every link reference.
getLibraryAddressPositions(compilerBytecode) ==
  LET Start(ref) == ref.start IN Map(compilerBytecode.linkReferences, Start)

\* linkHexStringBytecode with the zero address: the bytes before position,
\* one address of zero bytes, the bytes after the address.
LinkZeroAddress(code, position) ==
  SubSeq(code, 1, Min(position, Len(code)))
    \o [i \in 1..AddressLen |-> ZeroByte]
    \o SubSeq(code, position + AddressLen + 1, Len(code))

RECURSIVE LinkAll(_, _, _)
LinkAll(code, positions, i) ==
  IF i > Len(positions) THEN code
  ELSE LinkAll(LinkZeroAddress(code, positions[i]), positions, i + 1)

RECURSIVE HexPrefix(_)
\* Buffer.from(text, "hex"): decoding stops at the first byte that is not
\* hexadecimal text.
HexPrefix(code) ==
  IF code = <<>> \/ Head(code) = PlaceholderByte THEN <<>>
  ELSE <<Head(code)>> \o HexPrefix(Tail(code))

normalizeCompilerOutputBytecode(object, addressesPositions) ==
  HexPrefix(LinkAll(object, addressesPositions, 1))

\* decodeInstructions over single-byte opcodes: one instruction per byte,
\* at its offset.
decodeInstructions(normalizedCode, isDeployment) ==
  [i \in 1..Len(normalizedCode) |-> [pc |-> i - 1, opcode |-> normalizedCode[i]]]

\* Object.values of a table keyed by AST ids: the values by ascending key.
ObjectValues(table) ==
  LET keys == SortedSeq(DOMAIN table) IN [i \in 1..Len(keys) |-> table[keys[i]]]

\* Mutant of FlattenImmutableReferences: the reduce keeps only the current
\* value, so only the last variable's ranges are left.
FlattenImmutableReferencesLastOnly(immutableReferences) ==
  IF IsSome(immutableReferences) /\ DOMAIN Get(immutableReferences) # {}
  THEN LET values == ObjectValues(Get(immutableReferences))
       IN  values[Len(values)]
  ELSE <<>>

\* The reduce over the immutable-reference table.
FlattenImmutableReferences(immutableReferences) ==
  IF IsSome(immutableReferences)
  THEN Flatten(ObjectValues(Get(immutableReferences)))
  ELSE <<>>

decodeEvmBytecode(cid, solcVersion, isDeployment, compilerBytecode) ==
  LET libraryAddressPositions == getLibraryAddressPositions(compilerBytecode)
      immutableReferences ==
        FlattenImmutableReferences(compilerBytecode.immutableReferences)
      normalizedCode ==
        normalizeCompilerOutputBytecode(compilerBytecode.object,
                                        libraryAddressPositions)
      instructions == decodeInstructions(normalizedCode, isDeployment)
  IN  [contract |-> cid,
       isDeployment |-> isDeployment,
       normalizedCode |-> normalizedCode,
       instructions |-> instructions,
       libraryAddressPositions |-> libraryAddressPositions,
       immutableReferences |-> immutableReferences,
       compilerVersion |-> solcVersion]

\* The ABI types a custom error's selector can be computed for.
SupportedAbiTypes == {"uint256", "uint", "address", "uint8", "uint256[]"}

\* CustomError.fromABI: undefined when the selector cannot be computed.
CustomErrorFromABI(name, inputs) ==
  IF \A i \in 1..Len(inputs) : inputs[i] \in SupportedAbiTypes
  THEN Some([name |-> name, paramTypes |-> inputs,
             selector |-> MethodID(name, inputs)])
  ELSE None

RECURSIVE AddCustomErrorsUntilFailure(_, _, _)
\* Mutant of AddCustomErrors: the first error that cannot be built ends
\* the loop.
AddCustomErrorsUntilFailure(acc, contractAbiOutput, i) ==
  IF i > Len(contractAbiOutput) THEN acc
  ELSE
    LET abiItem == contractAbiOutput[i]
    IN  IF abiItem.type = "error"
        THEN LET customError ==
                   CustomErrorFromABI(abiItem.name, Get(abiItem.inputs))
             IN  IF IsSome(customError)
                 THEN AddCustomErrorsUntilFailure(
                        [acc EXCEPT !.errors = Append(@, Get(customError))],
                        contractAbiOutput, i + 1)
                 ELSE [acc EXCEPT !.log = Append(@, abiItem.name)]
        ELSE AddCustomErrorsUntilFailure(acc, contractAbiOutput, i + 1)

RECURSIVE AddCustomErrors(_, _, _)
\* The loop over the contract's ABI, from entry i on: the custom errors
\* added and the diagnostics logged.
AddCustomErrors(acc, contractAbiOutput, i) ==
  IF i > Len(contractAbiOutput) THEN acc
  ELSE
    LET abiItem == contractAbiOutput[i]
    IN  IF abiItem.type = "error"
        THEN LET customError ==
                   CustomErrorFromABI(abiItem.name, Get(abiItem.inputs))
             IN  IF IsSome(customError)
                 THEN AddCustomErrors(
                        [acc EXCEPT !.errors = Append(@, Get(customError))],
                        contractAbiOutput, i + 1)
                 ELSE AddCustomErrors(
                        [acc EXCEPT !.log = Append(@, abiItem.name)],
                        contractAbiOutput, i + 1)
        ELSE AddCustomErrors(acc, contractAbiOutput, i + 1)

\* The test for an abstract contract: bytecode.object === "".
IsAbstractContract(contractEvmOutput) ==
  contractEvmOutput.bytecode.object = <<>>

\* Mutant of DecodedBytecodes: the runtime Bytecode is pushed first.
DecodedBytecodesRuntimeFirst(cid, solcVersion, contractEvmOutput) ==
  << decodeEvmBytecode(cid, solcVersion, FALSE,
                       contractEvmOutput.deployedBytecode),
     decodeEvmBytecode(cid, solcVersion, TRUE, contractEvmOutput.bytecode) >>

\* The two Bytecode entities decoded and pushed for a contract with code.
DecodedBytecodes(cid, solcVersion, contractEvmOutput) ==
  << decodeEvmBytecode(cid, solcVersion, TRUE, contractEvmOutput.bytecode),
     decodeEvmBytecode(cid, solcVersion, FALSE,
                       contractEvmOutput.deployedBytecode) >>

\* Mutant of DecodeContract: the test for an abstract contract comes
\* before the loop over the ABI, so an abstract contract gets no error.
DecodeContractAbstractFirst(cid, contract, files, output, solcVersion) ==
  LET thrown == [threw |-> TRUE, errors |-> contract.customErrors,
                 log |-> <<>>, pushed |-> <<>>]
  IN
  IF ~IsSome(contract.location) THEN thrown
  ELSE
    LET contractFile == files[Get(contract.location).file].sourceName
        key == <<contractFile, contract.name>>
    IN  IF key \notin DOMAIN output THEN thrown
        ELSE IF IsAbstractContract(output[key].evm)
          THEN [threw |-> FALSE, errors |-> contract.customErrors,
                log |-> <<>>, pushed |-> <<>>]
        ELSE
          LET acc == AddCustomErrors(
                       [errors |-> contract.customErrors, log |-> <<>>],
                       output[key].abi, 1)
          IN  [threw |-> FALSE, errors |-> acc.errors, log |-> acc.log,
               pushed |->
                 DecodedBytecodes(cid, solcVersion, output[key].evm)]

\* One iteration of the loop of decodeBytecodes, for the contract cid.  The
\* result tells whether reading the contract's location or compiler output
\* threw, the contract's custom errors, the diagnostics and the Bytecode
\* entities pushed.
DecodeContract(cid, contract, files, output, solcVersion) ==
  LET thrown == [threw |-> TRUE, errors |-> contract.customErrors,
                 log |-> <<>>, pushed |-> <<>>]
  IN
  IF ~IsSome(contract.location) THEN thrown
  ELSE
    LET contractFile == files[Get(contract.location).file].sourceName
        key == <<contractFile, contract.name>>
    IN  IF key \notin DOMAIN output THEN thrown
        ELSE
          LET contractEvmOutput == output[key].evm
              acc == AddCustomErrors(
                       [errors |-> contract.customErrors, log |-> <<>>],
                       output[key].abi, 1)
          IN  [threw |-> FALSE, errors |-> acc.errors, log |-> acc.log,
               pushed |->
                 IF IsAbstractContract(contractEvmOutput) THEN <<>>
                 ELSE DecodedBytecodes(cid, solcVersion, contractEvmOutput)]

\* correctSelectors: for every contract with a runtime Bytecode, the
\* selectors of the externally reachable functions it declares or inherits.
ExternalSelectors(contract) ==
  {Get(f.selector) :
     f \in {g \in Range(contract.localFunctions) :
              /\ g.type \in {"FUNCTION", "GETTER"}
              /\ g.visibility \in {"PUBLIC", "EXTERNAL"}
              /\ IsSome(g.selector)}}

correctSelectors(bytecodeList, contracts) ==
  LET runtime == {bytecodeList[i].contract :
                    i \in {j \in 1..Len(bytecodeList) :
                             ~bytecodeList[j].isDeployment}}
  IN  [cid \in runtime |->
         ExternalSelectors(contracts[cid]) \cup
         UNION {ExternalSelectors(contracts[b]) :
                  b \in Range(contracts[cid].linearizedBaseContracts)}]

\* ------------------------------------------------------ compiler outputs
SolcVersion == "0.8.20"
SourceName(fileId) == IF fileId = 0 THEN "a.sol" ELSE "b.sol"
ContractName(cid) == <<"C", cid>>

Src(fileId) == [start |-> 0, length |-> 10, file |-> fileId]

TypeString(firstWord, text) == [firstWord |-> firstWord, text |-> text]

Param(nodeType, name, typeString) ==
  [typeName |-> [nodeType |-> nodeType, name |-> name],
   typeDescriptions |-> [typeString |-> typeString]]

ContractParam ==
  Param("UserDefinedTypeName", "Token", TypeString("contract", "contract Token"))
EnumParam ==
  Param("UserDefinedTypeName", "Color", TypeString("enum", "enum Color"))
StructParam ==
  Param("UserDefinedTypeName", "Point",
        TypeString("struct", "struct Point memory"))
ArrayParam ==
  Param("ArrayTypeName", Undefined, TypeString("uint256[]", "uint256[]"))
MappingParam ==
  Param("Mapping", Undefined,
        TypeString("mapping(uint256", "mapping(uint256 => address)"))
FunctionTypeParam ==
  Param("FunctionTypeName", Undefined,
        TypeString("function", "function (uint256) external"))
UintParam ==
  Param("ElementaryTypeName", "uint", TypeString("uint256", "uint256"))

ParamPool ==
  {ContractParam, EnumParam, StructParam, ArrayParam, MappingParam,
   FunctionTypeParam, UintParam}

FunctionNode(name, kind, visibility, implemented, stateMutability, functionSelector, parameters, fileId) ==
  [nodeType |-> "FunctionDefinition", name |-> name, kind |-> kind,
   visibility |-> visibility, implemented |-> implemented,
   stateMutability |-> stateMutability,
   functionSelector |-> functionSelector, parameters |-> parameters,
   src |-> Src(fileId)]

ModifierNode(name, fileId) ==
  [nodeType |-> "ModifierDefinition", name |-> name, src |-> Src(fileId)]

VariableNode(name, visibility, fileId) ==
  [nodeType |-> "VariableDeclaration", name |-> name,
   visibility |-> visibility, functionSelector |-> None,
   parameters |-> <<>>, src |-> Src(fileId)]

ContractNode(cid, contractKind, fileId, linearizedBaseContracts, nodes) ==
  [nodeType |-> "ContractDefinition", id |-> cid, name |-> ContractName(cid),
   contractKind |-> contractKind, src |-> Src(fileId),
   linearizedBaseContracts |-> linearizedBaseContracts, nodes |-> nodes]

Source(fileId, nodes) ==
  [name |-> SourceName(fileId), id |-> fileId, content |-> "pragma solidity",
   nodes |-> nodes]

AbiEntry(type, name, inputs) == [type |-> type, name |-> name, inputs |-> inputs]

\* A bytecode object: before ordinary bytes, then, with a library linked in,
\* one placeholder, then after ordinary bytes.
CodeObject(before, hasLibrary, after) ==
  [i \in 1..before |-> OpByte]
    \o (IF hasLibrary THEN [i \in 1..AddressLen |-> PlaceholderByte] ELSE <<>>)
    \o [i \in 1..after |-> OpByte]

CompilerBytecode(before, hasLibrary, after, immutableReferences) ==
  [object |-> CodeObject(before, hasLibrary, after),
   linkReferences |->
     IF hasLibrary THEN <<[start |-> before, length |-> AddressLen]>>
     ELSE <<>>,
   immutableReferences |-> immutableReferences]

\* The compiler's output for one contract: the runtime code has the given
\* shape; the deployment code is the runtime code behind one byte of
\* constructor code; an abstract contract has neither.
ContractOutput(abi, before, hasLibrary, after, immutableReferences) ==
  LET abstract == before = 0 /\ ~hasLibrary /\ after = 0
  IN  [abi |-> abi,
       evm |->
         [bytecode |->
            CompilerBytecode(IF abstract THEN 0 ELSE before + 1, hasLibrary,
                             after, None),
          deployedBytecode |->
            CompilerBytecode(before, hasLibrary, after, immutableReferences)]]

PlainOutput(abstract) ==
  ContractOutput(<<>>, IF abstract THEN 0 ELSE 1, FALSE, 0, None)

\* compilerOutput.contracts, keyed by source name and contract name, of the
\* contract definition nodes of sources, with entry[cid] for contract cid.
OutputOf(sources, entry) ==
  LET keyed == UNION {{<<sources[i].name, sources[i].nodes[j]>> :
                         j \in {b \in 1..Len(sources[i].nodes) :
                                  sources[i].nodes[b].nodeType
                                    = "ContractDefinition"}} :
                      i \in 1..Len(sources)}
  IN  [k \in {<<x[1], x[2].name>> : x \in keyed} |->
         LET node == (CHOOSE x \in keyed : <<x[1], x[2].name>> = k)[2]
         IN  entry[node.id]]

CompilerOutput(family, sources, entry) ==
  [family |-> family, solcVersion |-> SolcVersion, sources |-> sources,
   contracts |-> OutputOf(sources, entry)]

Reverse(s) == [i \in 1..Len(s) |-> s[Len(s) + 1 - i]]

\* -- Inheritance family: NumContracts contracts over two files, with every
\* consistent linearization of their ancestors, in both declaration
\* directions, and at most one irregular contract: one without its ancestor
\* list, an abstract one, an interface or a library.
Ids == 1..NumContracts

AncestorSets ==
  {anc \in [Ids -> SUBSET Ids] :
     \A c \in Ids : \A b \in anc[c] : b > c /\ anc[b] \subseteq anc[c]}

Variations ==
  {[what |-> "none", who |-> 0]} \cup
  {[what |-> w, who |-> k] :
     w \in {"missing", "abstract", "interface", "library"}, k \in Ids}

InheritanceContractNode(anc, descending, variation, c) ==
  LET Id(x) == IF descending THEN NumContracts + 1 - x ELSE x
      Is(what) == variation.what = what /\ variation.who = Id(c)
  IN  ContractNode(
        Id(c),
        IF Is("interface") THEN "interface"
        ELSE IF Is("library") THEN "library" ELSE "contract",
        Id(c) % 2,
        IF Is("missing") THEN None
        ELSE Some(<<Id(c)>> \o Map(SortedSeq(anc[c]), Id)),
        <<>>)

InheritanceInput(anc, descending, variation, reversed) ==
  LET Node(c) == InheritanceContractNode(anc, descending, variation, c)
      InFile(fileId) ==
        LET Here(c) == Node(c).id % 2 = fileId
        IN  Map(Filter(SortedSeq(Ids), Here), Node)
      ordered == <<Source(0, InFile(0)), Source(1, InFile(1))>>
      sources ==
        IF reversed
        THEN <<Source(1, Reverse(InFile(1))), Source(0, Reverse(InFile(0)))>>
        ELSE ordered
  IN  CompilerOutput(
        "inheritance", sources,
        [cid \in Ids |->
           PlainOutput(variation.what = "abstract" /\ variation.who = cid)])

InheritanceInputs ==
  {InheritanceInput(anc, descending, variation, reversed) :
     anc \in AncestorSets, descending \in BOOLEAN,
     variation \in Variations, reversed \in BOOLEAN}

\* -- Function family: one function definition node of every kind,
\* visibility and mutability, with and without a body and an explicit
\* selector, inside a contract or at the top level of the file.
FunctionKinds ==
  {Undefined, "function", "constructor", "fallback", "receive", "freeFunction"}
Visibilities == {"public", "external", "internal", "private"}

ExplicitSelector == Some(HexOf(MethodID("f", <<"address">>)))

FunctionInput(node, topLevel, abi) ==
  CompilerOutput(
    "function",
    << Source(0, IF topLevel
                 THEN <<ContractNode(1, "contract", 0, Some(<<1>>), <<>>), node>>
                 ELSE <<ContractNode(1, "contract", 0, Some(<<1>>), <<node>>)>>) >>,
    [cid \in {1} |-> ContractOutput(abi, 1, FALSE, 0, None)])

FunctionInputs ==
  {FunctionInput(
     FunctionNode("f", kind, visibility, implemented, stateMutability,
                  functionSelector, <<UintParam>>, 0),
     topLevel,
     <<AbiEntry("function", "f", Some(<<"uint256">>))>>) :
     kind \in FunctionKinds, visibility \in Visibilities,
     implemented \in BOOLEAN, stateMutability \in {"payable", "nonpayable"},
     functionSelector \in {None, ExplicitSelector}, topLevel \in BOOLEAN}

\* -- Overload family: a public function f with every parameter list of at
\* most MaxParams parameters, with and without an explicit selector, in a
\* contract whose ABI is any list of at most MaxAbi different entries.
AbiPool ==
  {AbiEntry("function", "f", Some(<<"uint256">>)),
   AbiEntry("function", "f", Some(<<"address">>)),
   AbiEntry("function", "f", Some(<<"uint">>)),
   AbiEntry("event", "f", Some(<<"uint8">>)),
   AbiEntry("function", "f", Some(<<"uint256[]">>)),
   AbiEntry("function", "f", None),
   AbiEntry("constructor", Undefined, Some(<<>>))}

OverloadInputs ==
  {FunctionInput(
     FunctionNode("f", "function", "public", TRUE, "nonpayable",
                  functionSelector, parameters, 0),
     FALSE, abi) :
     functionSelector \in {None, ExplicitSelector},
     parameters \in SeqsUpTo(ParamPool, MaxParams),
     abi \in {a \in SeqsUpTo(AbiPool, MaxAbi) :
                \A i, j \in 1..Len(a) : a[i] = a[j] => i = j}}

\* -- Bytecode family: a contract with every shape of runtime code, every
\* immutable-reference table within it and custom errors that can and
\* cannot be built, and a second contract deriving from it.
CodeLen(before, hasLibrary, after) ==
  before + (IF hasLibrary THEN AddressLen ELSE 0) + after

\* The ranges of at most MaxRangeLen bytes at either end of len bytes.
Ranges(len) ==
  {[start |-> st, length |-> l] :
     <<st, l>> \in {<<a, b>> \in (0..len) \X (1..MaxRangeLen) :
                      a + b <= len /\ (a = 0 \/ a + b = len)}}

\* The immutable-reference tables over the variables with AST ids 3 and 7.
ImmutableTables(len) ==
  {None, Some(<<>>)}
    \cup {Some(7 :> <<r>>) : r \in Ranges(len)}
    \cup {Some(7 :> <<r1, r2>>) : r1 \in Ranges(len), r2 \in Ranges(len)}
    \cup {Some((7 :> <<r1>>) @@ (3 :> <<r2>>)) :
            r1 \in Ranges(len), r2 \in Ranges(len)}

GoodError == AbiEntry("error", "InsufficientBalance", Some(<<"uint256">>))
OtherError == AbiEntry("error", "Denied", Some(<<"address">>))
BadError == AbiEntry("error", "Malformed", Some(<<"tuple">>))
PlainFunction == AbiEntry("function", "f", Some(<<>>))

ErrorAbis ==
  {<<>>, <<GoodError>>, <<BadError>>, <<BadError, PlainFunction, GoodError>>,
   <<GoodError, BadError, OtherError>>}

BytecodeInput(abi1, before, hasLibrary, after, table, abi2, abstract2) ==
  CompilerOutput(
    "bytecode",
    << Source(0, << ContractNode(1, "contract", 0, Some(<<1>>), <<>>),
                    ContractNode(2, "contract", 0, Some(<<2, 1>>), <<>>) >>) >>,
    (1 :> ContractOutput(abi1, before, hasLibrary, after, table))
      @@ (2 :> ContractOutput(abi2, IF abstract2 THEN 0 ELSE 1, FALSE, 0, None)))

BytecodeInputs ==
  {BytecodeInput(abi1, shape[1], shape[2], shape[3], table, abi2, abstract2) :
     <<abi1, shape, table, abi2, abstract2>> \in
       {x \in ErrorAbis \X ((0..MaxPad) \X BOOLEAN \X (0..MaxPad))
                \X ImmutableTables(CodeLen(MaxPad, TRUE, MaxPad))
                \X {<<>>, <<BadError, GoodError>>} \X BOOLEAN :
          x[3] \in ImmutableTables(CodeLen(x[2][1], x[2][2], x[2][3]))}}

\* -- Location family: two files with a contract each, whose src and whose
\* function's src name either file; the first contract also has a modifier
\* and two state variables.
LocationInput(file1, file2, fileF, fileG, reversed) ==
  LET F(name, fileId) ==
        FunctionNode(name, "function", "external", TRUE, "nonpayable", None,
                     <<>>, fileId)
      first == Source(0, <<ContractNode(1, "contract", file1, Some(<<1, 2>>),
                             <<F("f", fileF), ModifierNode("only", 0),
                               VariableNode("total", "public", 0),
                               VariableNode("hidden", "private", 0)>>)>>)
      second == Source(1, <<ContractNode(2, "contract", file2, Some(<<2>>),
                              <<F("g", fileG)>>)>>)
  IN  CompilerOutput(
        "location",
        IF reversed THEN <<second, first>> ELSE <<first, second>>,
        [cid \in {1, 2} |->
           ContractOutput(<<AbiEntry("function", "total", Some(<<>>))>>,
                          1, FALSE, 0, None)])

LocationInputs ==
  {LocationInput(file1, file2, fileF, fileG, reversed) :
     file1 \in {0, 1}, file2 \in {0, 1}, fileF \in {0, 1}, fileG \in {0, 1},
     reversed \in BOOLEAN}

Inputs ==
  InheritanceInputs \cup FunctionInputs \cup OverloadInputs
    \cup BytecodeInputs \cup LocationInputs

\* ---------------------------------------------------------------- the call
VARIABLES
  input,                 \* solcVersion, compilerInput and compilerOutput
  pc,                    \* where createModelsAndDecodeBytecodes is
  sourceIdx,             \* the next entry of compilerOutput.sources
  fileIdToSourceFile,
  contractIds,           \* the keys of contractIdToContract, as inserted
  contractIdToContract,
  contractIdToLinearizedBaseContractIds,
  contractIdx,           \* the next contract of decodeBytecodes' loop
  events,                \* the passes and loop iterations run so far
  bytecodes,
  diagnostics,           \* the names log() was called about
  correctedOver,         \* the Bytecode list the correction pass was given
  selectorSurface,       \* the correction pass' result
  returned,              \* the value returned to the caller, if any
  thrownBy               \* the function whose exception ended the call

\* The state of one call of ResolvedTask.run (resolved-task.ts).
VARIABLES
  task,                  \* the ResolvedTask and the arguments run was given
  taskArguments,         \* taskArguments, as run's loop updates it
  actions,               \* this.actions, as #resolveFileActions updates it
  taskPc,                \* where run is
  argumentIdx,           \* the next entry of Object.entries(taskArguments)
  actionIdx,             \* the next action of #resolveFileActions' loop
  pending,               \* the call of next about to be made, if any
  stack,                 \* the indices of the actions being executed
  invoked,               \* the action invocations made so far
  callbacks,             \* the calls of a runSuper callback made so far
  taskError              \* the throw that ended run, if any

taskVars ==
  <<task, taskArguments, actions, taskPc, argumentIdx, actionIdx, pending,
    stack, invoked, callbacks, taskError>>

\* No task is being run.
TaskIdle ==
  /\ task = <<>>
  /\ taskArguments = <<>>
  /\ actions = <<>>
  /\ taskPc = "idle"
  /\ argumentIdx = 1
  /\ actionIdx = 1
  /\ pending = None
  /\ stack = <<>>
  /\ invoked = <<>>
  /\ callbacks = <<>>
  /\ taskError = Undefined

vars ==
  <<input, pc, sourceIdx, fileIdToSourceFile, contractIds,
    contractIdToContract, contractIdToLinearizedBaseContractIds, contractIdx,
    events, bytecodes, diagnostics, correctedOver, selectorSurface, returned,
    thrownBy>>

\* The maps of the model under construction, as one record.
Model ==
  [files |-> fileIdToSourceFile, contractIds |-> contractIds,
   contracts |-> contractIdToContract,
   linIds |-> contractIdToLinearizedBaseContractIds]

Init ==
  /\ input \in Inputs
  /\ pc = "sources"
  /\ sourceIdx = 1
  /\ fileIdToSourceFile = EmptyModel.files
  /\ contractIds = EmptyModel.contractIds
  /\ contractIdToContract = EmptyModel.contracts
  /\ contractIdToLinearizedBaseContractIds = EmptyModel.linIds
  /\ contractIdx = 1
  /\ events = <<>>
  /\ bytecodes = <<>>
  /\ diagnostics = <<>>
  /\ correctedOver = None
  /\ selectorSurface = <<>>
  /\ returned = None
  /\ thrownBy = Undefined
  /\ TaskIdle

\* One iteration of createSourcesModelFromAst's loop over the sources.
ProcessSource ==
  /\ pc = "sources"
  /\ sourceIdx <= Len(input.sources)
  /\ LET m == ProcessSourceEntry(Model, input.sources[sourceIdx],
                                 input.contracts)
     IN  /\ fileIdToSourceFile' = m.files
         /\ contractIds' = m.contractIds
         /\ contractIdToContract' = m.contracts
         /\ contractIdToLinearizedBaseContractIds' = m.linIds
  /\ sourceIdx' = sourceIdx + 1
  /\ events' = Append(events, <<"source", input.sources[sourceIdx].id>>)
  /\ pc' = IF sourceIdx = Len(input.sources) THEN "inheritance" ELSE "sources"
  /\ UNCHANGED <<input, contractIdx, bytecodes, diagnostics, correctedOver,
                 selectorSurface, returned, thrownBy>>
  /\ UNCHANGED taskVars

\* The call of applyContractsInheritance that ends
\* createSourcesModelFromAst; a throw leaves the whole call.
ApplyContractsInheritance ==
  /\ pc = "inheritance"
  /\ LET r == applyContractsInheritance(Model)
     IN  /\ contractIdToContract' = r.contracts
         /\ pc' = IF r.threw THEN "threw"
                  ELSE IF contractIds = <<>> THEN "correct" ELSE "decode"
         /\ thrownBy' = IF r.threw THEN "applyContractsInheritance"
                        ELSE thrownBy
  /\ events' = Append(events, <<"applyContractsInheritance", 0>>)
  /\ UNCHANGED <<input, sourceIdx, fileIdToSourceFile, contractIds,
                 contractIdToLinearizedBaseContractIds, contractIdx,
                 bytecodes, diagnostics, correctedOver, selectorSurface,
                 returned>>
  /\ UNCHANGED taskVars

\* One iteration of decodeBytecodes' loop over the contracts.
DecodeNextContract ==
  /\ pc = "decode"
  /\ contractIdx <= Len(contractIds)
  /\ LET cid == contractIds[contractIdx]
         r == DecodeContract(cid, contractIdToContract[cid],
                             fileIdToSourceFile, input.contracts,
                             input.solcVersion)
     IN  /\ contractIdToContract' =
              [contractIdToContract EXCEPT ![cid].customErrors = r.errors]
         /\ diagnostics' = diagnostics \o r.log
         /\ bytecodes' = bytecodes \o r.pushed
         /\ events' = Append(events, <<"decode", cid>>)
         /\ pc' = IF r.threw THEN "threw"
                  ELSE IF contractIdx = Len(contractIds) THEN "correct"
                  ELSE "decode"
         /\ thrownBy' = IF r.threw THEN "decodeBytecodes" ELSE thrownBy
  /\ contractIdx' = contractIdx + 1
  /\ UNCHANGED <<input, sourceIdx, fileIdToSourceFile, contractIds,
                 contractIdToLinearizedBaseContractIds, correctedOver,
                 selectorSurface, returned>>
  /\ UNCHANGED taskVars

\* Mutant of CorrectSelectors: the correction pass is invoked inside
\* decodeBytecodes' loop, after each contract, over the list so far.
CorrectSelectorsInsideLoop ==
  /\ pc \in {"decode", "correct"}
  /\ contractIdx > 1
  /\ events[Len(events)][1] = "decode"
  /\ events' = Append(events, <<"correctSelectors", 0>>)
  /\ correctedOver' = Some(bytecodes)
  /\ selectorSurface' = correctSelectors(bytecodes, contractIdToContract)
  /\ pc' = IF pc = "correct" THEN "return" ELSE pc
  /\ UNCHANGED <<input, sourceIdx, fileIdToSourceFile, contractIds,
                 contractIdToContract, contractIdToLinearizedBaseContractIds,
                 contractIdx, bytecodes, diagnostics, returned, thrownBy>>
  /\ UNCHANGED taskVars

\* correctSelectors(bytecodes, compilerOutput)
CorrectSelectors ==
  /\ pc = "correct"
  /\ events' = Append(events, <<"correctSelectors", 0>>)
  /\ correctedOver' = Some(bytecodes)
  /\ selectorSurface' = correctSelectors(bytecodes, contractIdToContract)
  /\ pc' = "return"
  /\ UNCHANGED <<input, sourceIdx, fileIdToSourceFile, contractIds,
                 contractIdToContract, contractIdToLinearizedBaseContractIds,
                 contractIdx, bytecodes, diagnostics, returned, thrownBy>>
  /\ UNCHANGED taskVars

\* return bytecodes
Return ==
  /\ pc = "return"
  /\ returned' = Some(bytecodes)
  /\ pc' = "returned"
  /\ UNCHANGED <<input, sourceIdx, fileIdToSourceFile, contractIds,
                 contractIdToContract, contractIdToLinearizedBaseContractIds,
                 contractIdx, events, bytecodes, diagnostics, correctedOver,
                 selectorSurface, thrownBy>>
  /\ UNCHANGED taskVars

Next ==
  \/ ProcessSource
  \/ ApplyContractsInheritance
  \/ DecodeNextContract
  \/ CorrectSelectors
  \/ Return

allVars == <<vars, taskVars>>

Spec == Init /\ [][Next]_allVars

\* ---------------------------------------------------- reading the input
\* The contract definition nodes of the compiler output, with their source.
ContractNodes ==
  UNION {{[source |-> input.sources[i], node |-> input.sources[i].nodes[j]] :
            j \in {b \in 1..Len(input.sources[i].nodes) :
                     input.sources[i].nodes[b].nodeType = "ContractDefinition"}} :
         i \in 1..Len(input.sources)}

\* The nodes that are modelled: contracts and libraries, not interfaces.
ModelledNodes ==
  {n \in ContractNodes : n.node.contractKind \in {"contract", "library"}}

ModelledIds == {n.node.id : n \in ModelledNodes}

NodeOf(cid) == CHOOSE n \in ModelledNodes : n.node.id = cid

\* What the compiler emitted for the contract declared by a node.
EmittedFor(n) == input.contracts[<<n.source.name, n.node.name>>]

HasCode(n) == EmittedFor(n).evm.bytecode.object # <<>>

\* decodeBytecodes has run to its end.
DecodeBytecodesReturned == pc \in {"correct", "return", "returned"}

\* createSourcesModelFromAst has run to its end.
SourcesModelBuilt == pc \in {"decode", "correct", "return", "returned"}
                       \/ thrownBy = "decodeBytecodes"

\* The positions of the Bytecode entities of contract cid in a list.
BytecodesOf(list, cid) == {i \in 1..Len(list) : list[i].contract = cid}

\* ------------------------------------------------------------------ claims
\* C1: once decodeBytecodes has returned, a modelled contract whose
\* bytecode.object is empty has no Bytecode entity, every other modelled
\* contract has exactly two, adjacent, the deployment one first and the
\* runtime one second, and the list is twice as long as there are modelled
\* contracts with code.
C1_TwoBytecodesPerContractWithCode ==
  DecodeBytecodesReturned =>
    /\ \A n \in ModelledNodes :
         LET at == BytecodesOf(bytecodes, n.node.id)
         IN  IF HasCode(n)
             THEN \E i \in 1..Len(bytecodes) :
                    /\ at = {i, i + 1}
                    /\ bytecodes[i].isDeployment
                    /\ ~bytecodes[i + 1].isDeployment
             ELSE at = {}
    /\ Len(bytecodes) = 2 * Cardinality({n \in ModelledNodes : HasCode(n)})

\* C1 witness: a list returned for three contracts of which one is abstract.
C1_Witness ==
  /\ pc = "returned"
  /\ Cardinality(ModelledNodes) = 3
  /\ \E n \in ModelledNodes : ~HasCode(n)
  /\ Len(Get(returned)) = 4

\* The transitive closure of a relation over at most n elements.
RECURSIVE Closure(_, _)
Closure(R, n) ==
  IF n = 0 THEN R
  ELSE Closure(R \cup {<<x[1], y[2]>> : <<x, y>> \in {z \in R \X R : z[1][2] = z[2][1]}},
               n - 1)

\* No contract is, through the ancestor lists, a proper ancestor of itself.
Acyclic(contracts) ==
  LET edges == {<<c, b>> \in (DOMAIN contracts) \X (DOMAIN contracts) :
                  b # c /\ b \in Range(contracts[c].linearizedBaseContracts)}
  IN  \A c \in DOMAIN contracts :
        <<c, c>> \notin Closure(edges, Cardinality(DOMAIN contracts))

\* C2: once applyContractsInheritance has run, every contract's ancestor
\* list is the compiler's linearizedBaseContracts without the ids of
\* contracts that are not modelled, in the compiler's order and with the
\* compiler's multiplicity; the lists are acyclic; and the pass throws only
\* over a missing list, never over an id that does not resolve.
C2_AncestorsAreResolvedLinearization ==
  /\ SourcesModelBuilt =>
       /\ \A cid \in ModelledIds :
            LET Resolves(baseId) == baseId \in ModelledIds
            IN  contractIdToContract[cid].linearizedBaseContracts =
                  Filter(Get(NodeOf(cid).node.linearizedBaseContracts),
                         Resolves)
       /\ Acyclic(contractIdToContract)
  /\ thrownBy = "applyContractsInheritance" =>
       \E n \in ModelledNodes : ~IsSome(n.node.linearizedBaseContracts)

\* C2 witness: a contract with two resolved ancestors besides itself whose
\* compiler list also names an interface.
C2_Witness ==
  /\ pc = "decode"
  /\ \E cid \in ModelledIds :
       /\ Len(contractIdToContract[cid].linearizedBaseContracts) = 2
       /\ Len(Get(NodeOf(cid).node.linearizedBaseContracts)) = 3
       /\ contractIdToContract[cid].linearizedBaseContracts[1] = cid

\* The orders createSourcesModelFromAst can meet the same sources in: the
\* sources permuted, and the nodes of each source permuted.
Perms(n) == {p \in [1..n -> 1..n] : \A i, j \in 1..n : p[i] = p[j] => i = j}

NodeOrders(source) ==
  {[source EXCEPT !.nodes = [i \in 1..Len(source.nodes) |-> source.nodes[p[i]]]] :
     p \in Perms(Len(source.nodes))}

Orderings(sources) ==
  {o \in [1..Len(sources) -> UNION {NodeOrders(sources[i]) : i \in 1..Len(sources)}] :
     \E p \in Perms(Len(sources)) :
       \A i \in 1..Len(sources) : o[i] \in NodeOrders(sources[p[i]])}

RECURSIVE ProcessSourcesFrom(_, _, _, _)
ProcessSourcesFrom(m, sources, output, i) ==
  IF i > Len(sources) THEN m
  ELSE ProcessSourcesFrom(ProcessSourceEntry(m, sources[i], output),
                          sources, output, i + 1)

\* createSourcesModelFromAst over the sources in the given order.
createSourcesModelFromAst(sources, output) ==
  LET m == ProcessSourcesFrom(EmptyModel, sources, output, 1)
      r == applyContractsInheritance(m)
  IN  [files |-> m.files, contracts |-> r.contracts, threw |-> r.threw]

\* What a model contains, whatever order it was built in: the files with
\* the set of their functions, and the contracts with their functions,
\* locations and ancestors; nothing when the build threw.
Content(files, contracts, threw) ==
  IF threw THEN [threw |-> TRUE]
  ELSE [threw |-> FALSE,
        files |-> [f \in DOMAIN files |->
                     [sourceName |-> files[f].sourceName,
                      content |-> files[f].content,
                      functions |-> Range(files[f].functions)]],
        contracts |-> contracts]

\* createSourcesModelFromAst has just ended, by returning or by throwing.
SourcesModelJustBuilt ==
  \/ pc \in {"decode", "correct"} /\ contractIdx = 1
  \/ thrownBy = "applyContractsInheritance"

\* C3: the model createSourcesModelFromAst builds is the one it builds from
\* the same sources and contract nodes met in any other order.
C3_OrderIndependent ==
  SourcesModelJustBuilt =>
    \A o \in Orderings(input.sources) :
      LET other == createSourcesModelFromAst(o, input.contracts)
      IN  Content(other.files, other.contracts, other.threw) =
            Content(fileIdToSourceFile, contractIdToContract,
                    thrownBy = "applyContractsInheritance")

\* The functions built so far: every one is added to its file.
BuiltFunctions ==
  UNION {Range(fileIdToSourceFile[f].functions) : f \in DOMAIN fileIdToSourceFile}

\* Those built by processFunctionDefinitionAstNode.
FunctionDefinitionTypes ==
  {"FUNCTION", "CONSTRUCTOR", "FALLBACK", "RECEIVE", "FREE_FUNCTION"}

BuiltFromFunctionDefinitions ==
  {f \in BuiltFunctions : f.type \in FunctionDefinitionTypes}

\* C4: a function built from a function definition has a selector exactly
\* when it is an ordinary FUNCTION that is PUBLIC or EXTERNAL.
C4_SelectorIffExternalFunction ==
  \A f \in BuiltFromFunctionDefinitions :
    IsSome(f.selector) <=>
      /\ f.type = "FUNCTION"
      /\ f.type \notin {"CONSTRUCTOR", "FALLBACK", "RECEIVE", "FREE_FUNCTION"}
      /\ f.visibility \in {"PUBLIC", "EXTERNAL"}

\* C4 witness: a public constructor, built without a selector.
C4_Witness ==
  \E f \in BuiltFromFunctionDefinitions :
    f.type = "CONSTRUCTOR" /\ f.visibility = "PUBLIC" /\ ~IsSome(f.selector)

\* The contracts decodeBytecodes' loop has handled without throwing.
DecodedIds ==
  {events[i][2] :
     i \in {j \in 1..Len(events) :
              /\ events[j][1] = "decode"
              /\ ~(thrownBy = "decodeBytecodes" /\ j = Len(events))}}

\* The custom errors the ABI of a contract declares and that can be built.
BuildableErrors(abi) ==
  LET Buildable(e) ==
        e.type = "error" /\ IsSome(CustomErrorFromABI(e.name, Get(e.inputs)))
      Built(e) == Get(CustomErrorFromABI(e.name, Get(e.inputs)))
  IN  Map(Filter(abi, Buildable), Built)

UnbuildableErrors(abi) ==
  LET Unbuildable(e) ==
        e.type = "error" /\ ~IsSome(CustomErrorFromABI(e.name, Get(e.inputs)))
  IN  Filter(abi, Unbuildable)

\* C5: an ABI error that cannot be built costs only itself.  Every contract
\* the loop has handled has all its buildable errors, in order, and its
\* two Bytecode entities if it has code; the loop goes on to the last
\* contract; and decodeBytecodes throws only over a contract whose location
\* or compiler output it cannot read, never over an error entry.
C5_UnbuildableErrorSkippedAlone ==
  /\ \A cid \in DecodedIds :
       /\ contractIdToContract[cid].customErrors =
            BuildableErrors(EmittedFor(NodeOf(cid)).abi)
       /\ HasCode(NodeOf(cid)) =>
            Cardinality(BytecodesOf(bytecodes, cid)) = 2
  /\ DecodeBytecodesReturned => DecodedIds = ModelledIds
  /\ thrownBy = "decodeBytecodes" =>
       LET contract == contractIdToContract[events[Len(events)][2]]
       IN  \/ ~IsSome(contract.location)
           \/ <<fileIdToSourceFile[Get(contract.location).file].sourceName,
                contract.name>> \notin DOMAIN input.contracts

\* C5 witness: a list returned for two contracts with code, each with an
\* error that could not be built, the first with an error built before it
\* and one built after it.
C5_Witness ==
  /\ pc = "returned"
  /\ Len(Get(returned)) = 4
  /\ \A cid \in ModelledIds :
       UnbuildableErrors(EmittedFor(NodeOf(cid)).abi) # <<>>
  /\ Len(contractIdToContract[1].customErrors) = 2
  /\ EmittedFor(NodeOf(1)).abi[2] = BadError
  /\ Len(diagnostics) = 2

\* The ABI entries of the contract a function belongs to that carry the
\* function's name and whose recomputed selector is the function's.
EntriesWithSelectorOf(f) ==
  IF ~IsSome(f.contract) \/ ~IsSome(f.selector) THEN {}
  ELSE {e \in Range(EmittedFor(NodeOf(Get(f.contract))).abi) :
          /\ e.name = f.name
          /\ MethodID(e.name, IF IsSome(e.inputs) THEN Get(e.inputs) ELSE <<>>)
               = Get(f.selector)}

\* C6: a function's parameter types are the input types of an ABI entry of
\* its name whose recomputed selector equals its own; with no such entry, or
\* with no selector, it has no parameter types, whatever other entries of
\* its name there are.
C6_ParamTypesFromMatchingOverload ==
  \A f \in BuiltFromFunctionDefinitions :
    IF EntriesWithSelectorOf(f) = {} THEN f.paramTypes = None
    ELSE \E e \in EntriesWithSelectorOf(f) : f.paramTypes = e.inputs

\* C6 witness: of two overloads in the ABI, the second is the function's.
C6_Witness ==
  \E f \in BuiltFromFunctionDefinitions :
    /\ IsSome(f.contract)
    /\ LET abi == EmittedFor(NodeOf(Get(f.contract))).abi
       IN  /\ Len(abi) = 2
           /\ abi[1] = AbiEntry("function", "f", Some(<<"uint256">>))
           /\ abi[2] = AbiEntry("function", "f", Some(<<"address">>))
    /\ f.paramTypes = Some(<<"address">>)

\* The rank of an event in the order of createModelsAndDecodeBytecodes.
Phase(event) ==
  IF event[1] = "source" THEN 1
  ELSE IF event[1] = "applyContractsInheritance" THEN 2
  ELSE IF event[1] = "decode" THEN 3
  ELSE 4

EventsOf(kind) == {i \in 1..Len(events) : events[i][1] = kind}

\* C7: the passes run in order.  Every source is processed and the
\* inheritance pass has run, once, before the first contract is decoded; no
\* contract is decoded twice; the correction pass runs at most once, after
\* every contract has been decoded, over the complete Bytecode list, which
\* is the list returned.
C7_PhasesInOrder ==
  /\ \A i, j \in 1..Len(events) : i < j => Phase(events[i]) <= Phase(events[j])
  /\ Cardinality(EventsOf("applyContractsInheritance")) <= 1
  /\ Cardinality(EventsOf("correctSelectors")) <= 1
  /\ \A i, j \in EventsOf("decode") : events[i][2] = events[j][2] => i = j
  /\ (EventsOf("decode") # {} \/ bytecodes # <<>>) =>
       /\ {events[i][2] : i \in EventsOf("source")} =
            {input.sources[k].id : k \in 1..Len(input.sources)}
       /\ Cardinality(EventsOf("applyContractsInheritance")) = 1
  /\ EventsOf("correctSelectors") # {} =>
       /\ {events[i][2] : i \in EventsOf("decode")} = ModelledIds
       /\ thrownBy = Undefined
       /\ correctedOver = Some(bytecodes)
       /\ \A n \in ModelledNodes :
            HasCode(n) => Cardinality(BytecodesOf(bytecodes, n.node.id)) = 2
  /\ IsSome(correctedOver) <=> EventsOf("correctSelectors") # {}
  /\ IsSome(returned) =>
       EventsOf("correctSelectors") # {} /\ returned = correctedOver

\* C7 witness: the call has returned after two sources, the inheritance
\* pass, three contracts and the correction pass.
C7_Witness ==
  /\ pc = "returned"
  /\ Len(events) = 7
  /\ Cardinality(EventsOf("decode")) = 3
  /\ events[Len(events)][1] = "correctSelectors"

\* What the compiler emitted as the code of a Bytecode entity.
EmittedCode(bytecode) ==
  LET evm == EmittedFor(NodeOf(bytecode.contract)).evm
  IN  IF bytecode.isDeployment THEN evm.bytecode ELSE evm.deployedBytecode

\* C8: the immutable references of a Bytecode are the compiler's
\* per-variable range lists, one after the other, none when the compiler
\* gave no table, and every range ends within the normalized code.
C8_ImmutableReferencesWithinCode ==
  \A k \in 1..Len(bytecodes) :
    LET b == bytecodes[k]
        table == EmittedCode(b).immutableReferences
    IN  /\ \A i \in 1..Len(b.immutableReferences) :
             b.immutableReferences[i].start + b.immutableReferences[i].length
               <= Len(b.normalizedCode)
        /\ IF IsSome(table)
           THEN \E keys \in [1..Cardinality(DOMAIN Get(table)) -> DOMAIN Get(table)] :
                  /\ \A i, j \in DOMAIN keys : keys[i] = keys[j] => i = j
                  /\ b.immutableReferences =
                       Flatten([i \in DOMAIN keys |-> Get(table)[keys[i]]])
           ELSE b.immutableReferences = <<>>

\* C8 witness: a runtime Bytecode with a library placeholder and the ranges
\* of two immutable variables, the second ending at the end of the code.
C8_Witness ==
  \E k \in 1..Len(bytecodes) :
    /\ ~bytecodes[k].isDeployment
    /\ bytecodes[k].libraryAddressPositions # <<>>
    /\ IsSome(EmittedCode(bytecodes[k]).immutableReferences)
    /\ Cardinality(DOMAIN Get(EmittedCode(bytecodes[k]).immutableReferences)) = 2
    /\ Len(bytecodes[k].immutableReferences) = 2
    /\ bytecodes[k].immutableReferences[2].start
         + bytecodes[k].immutableReferences[2].length
         = Len(bytecodes[k].normalizedCode)

\* A modelled contract node comes without its linearizedBaseContracts.
AncestorListMissing ==
  \E n \in ModelledNodes : ~IsSome(n.node.linearizedBaseContracts)

\* C9: with the ancestor list of a modelled contract missing, the call gets
\* no further than the inheritance pass, where it throws: no contract is
\* decoded, no Bytecode exists, the correction pass does not run and
\* nothing is returned.
C9_MissingAncestorListAborts ==
  AncestorListMissing =>
    /\ pc \in {"sources", "inheritance", "threw"}
    /\ pc = "threw" => thrownBy = "applyContractsInheritance"
    /\ EventsOf("decode") = {}
    /\ EventsOf("correctSelectors") = {}
    /\ bytecodes = <<>>
    /\ returned = None

\* C9 witness: the call has thrown in the inheritance pass, with three
\* contracts registered, the second one without its list.
C9_Witness ==
  /\ pc = "threw"
  /\ thrownBy = "applyContractsInheritance"
  /\ Len(contractIds) = 3
  /\ ~IsSome(contractIdToLinearizedBaseContractIds[contractIds[2]])

\* The function definition nodes nested in modelled contracts.
MemberFunctionNodes ==
  UNION {{[cid |-> n.node.id, node |-> n.node.nodes[k]] :
            k \in {j \in 1..Len(n.node.nodes) :
                     n.node.nodes[j].nodeType = "FunctionDefinition"}} :
         n \in ModelledNodes}

\* The type a parameter brings to the computed signature, as claimed.
ClaimedParamType(param) ==
  IF param.typeDescriptions.typeString.firstWord = "contract" THEN "address"
  ELSE IF param.typeDescriptions.typeString.firstWord = "enum" THEN "uint8"
  ELSE IF param.typeName.nodeType \in
            {"ArrayTypeName", "Mapping", "FunctionTypeName"}
  THEN param.typeDescriptions.typeString.text
  ELSE ToCanonicalAbiType(param.typeName.name)

\* C10: the selector of a function built with one is the AST's explicit
\* functionSelector when the node has one, whatever its parameters; else it
\* is the selector of the function's name and its parameters' types, a
\* contract being an address, an enum a uint8, and an array, a mapping or a
\* function type its declared type string.
C10_ExplicitSelectorElseComputed ==
  \A m \in {x \in MemberFunctionNodes : x.cid \in DOMAIN contractIdToContract} :
    \A f \in Range(contractIdToContract[m.cid].localFunctions) :
      (f.name = m.node.name /\ IsSome(f.selector)) =>
        Get(f.selector) =
          IF IsSome(m.node.functionSelector)
          THEN BufferFromHex(Get(m.node.functionSelector))
          ELSE MethodID(m.node.name, Map(m.node.parameters, ClaimedParamType))

\* C10 witness: a function with a parameter and an explicit selector that is
\* not the one its parameter gives.
C10_Witness ==
  \E m \in {x \in MemberFunctionNodes : x.cid \in DOMAIN contractIdToContract} :
    \E f \in Range(contractIdToContract[m.cid].localFunctions) :
      /\ f.name = m.node.name
      /\ IsSome(m.node.functionSelector)
      /\ m.node.parameters = <<EnumParam>>
      /\ f.selector = Some(MethodID("f", <<"address">>))

\* ==================================================== ResolvedTask.run
\* resolved-task.ts: one call of run on a resolved task.

MaxActions == 3
MaxArguments == 2
MaxInvocations == 4

\* A value is modelled by what isParameterValueValid looks at: undefined,
\* a string, a number, or an array of strings.
ArgumentValues == {Undefined, "string", "number", "string[]"}

\* typeof action.action
TypeOfAction(action) ==
  IF action = Undefined THEN "undefined"
  ELSE IF action = "function" THEN "function"
  ELSE "string"

\* await import(path): the module, or a rejection.
Import(path) ==
  [rejected |-> path = "./missing.js",
   default |-> IF path = "./action.js" THEN "function" ELSE Undefined]

\* isParameterValueValid(parameterType, value, isVariadic)
isParameterValueValid(parameterType, value, isVariadic) ==
  LET one == IF parameterType = "STRING" THEN "string" ELSE "number"
  IN  IF isVariadic THEN parameterType = "STRING" /\ value = "string[]"
      ELSE value = one

\* get isEmpty
isEmpty(taskActions) ==
  Len(taskActions) = 1 /\ taskActions[1].action = Undefined

\* #getParameter(name): the parameter, if there is one of that name.
getParameter(namedParameters, positionalParameters, name) ==
  IF name \in DOMAIN namedParameters THEN Some(namedParameters[name])
  ELSE LET found == SeqFilterIdx(
                      [i \in 1..Len(positionalParameters) |->
                         positionalParameters[i].name = name],
                      1, Len(positionalParameters))
       IN  IF found = <<>> THEN None
           ELSE Some(positionalParameters[found[1]])

\* #validateRequiredParameter(parameter, value): TRUE when it throws.
validateRequiredParameterThrows(parameter, value) ==
  parameter.defaultValue = Undefined /\ value = Undefined

\* #validateParameterType(parameter, value): TRUE when it throws.
validateParameterTypeThrows(parameter, value) ==
  IF value = Undefined /\ parameter.defaultValue # Undefined THEN FALSE
  ELSE ~isParameterValueValid(parameter.parameterType, value,
                              parameter.isVariadic)

\* The body of run's loop for one entry [name, value] of the arguments:
\* the error thrown, if any, and the value the entry has afterwards.
ValidateArgument(namedParameters, positionalParameters, name, value) ==
  LET p == getParameter(namedParameters, positionalParameters, name)
  IN  IF ~IsSome(p) THEN [error |-> "UNRECOGNIZED_NAMED_PARAM", value |-> value]
      ELSE IF validateRequiredParameterThrows(Get(p), value)
        THEN [error |-> "MISSING_VALUE_FOR_PARAMETER", value |-> value]
      ELSE IF validateParameterTypeThrows(Get(p), value)
        THEN [error |-> "Invalid type for parameter", value |-> value]
      ELSE [error |-> Undefined,
            value |-> IF value = Undefined /\ Get(p).defaultValue # Undefined
                      THEN Get(p).defaultValue ELSE value]

\* The body of #resolveFileActions' loop for one action: the error thrown,
\* if any, and the action afterwards.
ResolveFileAction(action) ==
  IF TypeOfAction(action.action) # "string"
    THEN [error |-> Undefined, action |-> action]
  ELSE IF Import(action.action).rejected
    THEN [error |-> "Error importing the module", action |-> action]
  ELSE IF TypeOfAction(Import(action.action).default) # "function"
    THEN [error |-> "should export a default function", action |-> action]
  ELSE [error |-> Undefined,
        action |-> [action EXCEPT !.action = Import(action.action).default]]

\* Mutant of RunSuperCall: the callback passes on the arguments run was
\* given instead of the ones it is called with.
RunSuperCallWithRunArguments(newTaskArguments, currentIndex) ==
  [taskArguments |-> taskArguments, currentIndex |-> currentIndex - 1]

\* The callback handed to the action at currentIndex:
\* (newTaskArguments) => next(newTaskArguments, currentIndex - 1)
RunSuperCall(newTaskArguments, currentIndex) ==
  [taskArguments |-> newTaskArguments, currentIndex |-> currentIndex - 1]

\* Whether next hands the action at currentIndex a runSuper callback.
HasRunSuper(currentIndex) == currentIndex # 0

\* ------------------------------------------------------- tasks and runs
TaskAction(action) == [pluginId |-> Undefined, action |-> action]

NamedTaskParameter(name, parameterType, defaultValue) ==
  [name |-> name, parameterType |-> parameterType,
   defaultValue |-> defaultValue, isVariadic |-> FALSE]

PositionalTaskParameter(name, parameterType, defaultValue, isVariadic) ==
  [name |-> name, parameterType |-> parameterType,
   defaultValue |-> defaultValue, isVariadic |-> isVariadic]

\* What an action of a task can be: absent (an empty task's), a function,
\* or the path of a module: one that exports a default function, one that
\* cannot be imported, one without a default function.
ActionValues ==
  {Undefined, "function", "./action.js", "./missing.js", "./nodefault.js"}

ActionLists ==
  {Map(l, TaskAction) : l \in SeqsUpTo(ActionValues, MaxActions) \ {<<>>}}

\* namedParameters: none, or the parameter "a".
NamedParameterMaps ==
  {<<>>}
    \cup {("a" :> NamedTaskParameter("a", "STRING", d)) :
            d \in {Undefined, "string"}}
    \cup {("a" :> NamedTaskParameter("a", "INT", d)) :
            d \in {Undefined, "number"}}

\* positionalParameters: none, or the parameter "b".
PositionalParameterLists ==
  {<<>>}
    \cup {<<PositionalTaskParameter("b", "STRING", d, FALSE)>> :
            d \in {Undefined, "string"}}
    \cup {<<PositionalTaskParameter("b", "STRING", d, TRUE)>> :
            d \in {Undefined, "string[]"}}

ArgumentNames == {"a", "b", "z"}

\* Object.entries(taskArguments): entries of distinct names, in order.
ArgumentLists ==
  {l \in SeqsUpTo(ArgumentNames \X ArgumentValues, MaxArguments) :
     \A i, j \in 1..Len(l) : l[i][1] = l[j][1] => i = j}

ResolvedTask(taskActions, namedParameters, positionalParameters, given) ==
  [actions |-> taskActions, namedParameters |-> namedParameters,
   positionalParameters |-> positionalParameters, given |-> given]

\* Runs that differ in the parameters and the arguments.
ValidationRuns ==
  {ResolvedTask(Map(l, TaskAction), n, p, g) :
     l \in {<<Undefined>>, <<"function">>, <<"function", "function">>},
     n \in NamedParameterMaps, p \in PositionalParameterLists,
     g \in ArgumentLists}

\* Runs that differ in the actions.
ActionRuns ==
  {ResolvedTask(l, ("a" :> NamedTaskParameter("a", "STRING", "string")),
                <<>>, g) :
     l \in ActionLists, g \in {<<>>, <<<<"a", Undefined>>>>}}

TaskRuns == ValidationRuns \cup ActionRuns

\* The arguments an action may pass to its runSuper callback.
NewTaskArguments(received) ==
  {received, <<>>, <<<<"a", "string">>>>}

\* ------------------------------------------------------ the run of a task
\* No compiler output is being modelled.
CompilerIdle ==
  /\ input = <<>>
  /\ pc = "idle"
  /\ sourceIdx = 1
  /\ fileIdToSourceFile = EmptyModel.files
  /\ contractIds = EmptyModel.contractIds
  /\ contractIdToContract = EmptyModel.contracts
  /\ contractIdToLinearizedBaseContractIds = EmptyModel.linIds
  /\ contractIdx = 1
  /\ events = <<>>
  /\ bytecodes = <<>>
  /\ diagnostics = <<>>
  /\ correctedOver = None
  /\ selectorSurface = <<>>
  /\ returned = None
  /\ thrownBy = Undefined

\* run(taskArguments) is called on a resolved task.
TaskInit ==
  /\ task \in TaskRuns
  /\ taskArguments = task.given
  /\ actions = task.actions
  /\ taskPc = "start"
  /\ argumentIdx = 1
  /\ actionIdx = 1
  /\ pending = None
  /\ stack = <<>>
  /\ invoked = <<>>
  /\ callbacks = <<>>
  /\ taskError = Undefined
  /\ CompilerIdle

\* if (this.isEmpty) throw
CheckEmpty ==
  /\ taskPc = "start"
  /\ IF isEmpty(actions)
       THEN taskPc' = "threw" /\ taskError' = "Cannot run an empty task"
       ELSE /\ taskPc' = IF taskArguments = <<>> THEN "resolve" ELSE "validate"
            /\ UNCHANGED taskError
  /\ UNCHANGED <<task, taskArguments, actions, argumentIdx, actionIdx,
                 pending, stack, invoked, callbacks>>
  /\ UNCHANGED vars

\* One iteration of run's loop over Object.entries(taskArguments).
ValidateNextArgument ==
  /\ taskPc = "validate"
  /\ argumentIdx <= Len(taskArguments)
  /\ LET name == taskArguments[argumentIdx][1]
         r == ValidateArgument(task.namedParameters,
                               task.positionalParameters, name,
                               taskArguments[argumentIdx][2])
     IN  /\ taskArguments' =
              [taskArguments EXCEPT ![argumentIdx] = <<name, r.value>>]
         /\ taskError' = r.error
         /\ taskPc' = IF r.error # Undefined THEN "threw"
                      ELSE IF argumentIdx = Len(taskArguments) THEN "resolve"
                      ELSE "validate"
  /\ argumentIdx' = argumentIdx + 1
  /\ UNCHANGED <<task, actions, actionIdx, pending, stack, invoked,
                 callbacks>>
  /\ UNCHANGED vars

\* One iteration of #resolveFileActions' loop; after the last one run
\* calls next(taskArguments), with currentIndex the last index.
ResolveNextFileAction ==
  /\ taskPc = "resolve"
  /\ actionIdx <= Len(actions)
  /\ LET r == ResolveFileAction(actions[actionIdx])
     IN  /\ actions' = [actions EXCEPT ![actionIdx] = r.action]
         /\ taskError' = r.error
         /\ taskPc' = IF r.error # Undefined THEN "threw"
                      ELSE IF actionIdx = Len(actions) THEN "call"
                      ELSE "resolve"
         /\ pending' = IF r.error = Undefined /\ actionIdx = Len(actions)
                       THEN Some([taskArguments |-> taskArguments,
                                  currentIndex |-> Len(actions) - 1])
                       ELSE pending
  /\ actionIdx' = actionIdx + 1
  /\ UNCHANGED <<task, taskArguments, argumentIdx, stack, invoked,
                 callbacks>>
  /\ UNCHANGED vars

\* next(nextTaskArguments, currentIndex): the invariant on the action, and
\* the action's invocation, with a runSuper callback unless it is the first.
CallNext ==
  /\ taskPc = "call"
  /\ LET call == Get(pending)
         actionFn == actions[call.currentIndex + 1].action
         invocation == [currentIndex |-> call.currentIndex,
                        taskArguments |-> call.taskArguments,
                        runSuper |-> HasRunSuper(call.currentIndex),
                        callback |-> Len(callbacks)]
     IN  IF TypeOfAction(actionFn) # "function"
           THEN /\ taskPc' = "threw"
                /\ taskError' = "The action should be a function"
                /\ stack' = <<>>
                /\ UNCHANGED invoked
           ELSE /\ taskPc' = "action"
                /\ invoked' = Append(invoked, invocation)
                /\ stack' = Append(stack, invocation)
                /\ UNCHANGED taskError
  /\ pending' = None
  /\ UNCHANGED <<task, taskArguments, actions, argumentIdx, actionIdx,
                 callbacks>>
  /\ UNCHANGED vars

\* The action being executed calls the runSuper callback it was given.
ActionCallsRunSuper ==
  /\ taskPc = "action"
  /\ stack[Len(stack)].runSuper
  /\ Len(invoked) < MaxInvocations
  /\ \E newTaskArguments \in
          NewTaskArguments(stack[Len(stack)].taskArguments) :
       /\ callbacks' = Append(callbacks,
                              [from |-> stack[Len(stack)].currentIndex,
                               taskArguments |-> newTaskArguments])
       /\ pending' = Some(RunSuperCall(newTaskArguments,
                                       stack[Len(stack)].currentIndex))
  /\ taskPc' = "call"
  /\ UNCHANGED <<task, taskArguments, actions, argumentIdx, actionIdx,
                 stack, invoked, taskError>>
  /\ UNCHANGED vars

\* The action being executed returns: to the action that called its
\* callback, or, for the last action, to run's caller.
ActionReturns ==
  /\ taskPc = "action"
  /\ stack' = SubSeq(stack, 1, Len(stack) - 1)
  /\ taskPc' = IF Len(stack) = 1 THEN "done" ELSE "action"
  /\ UNCHANGED <<task, taskArguments, actions, argumentIdx, actionIdx,
                 pending, invoked, callbacks, taskError>>
  /\ UNCHANGED vars

TaskNext ==
  \/ CheckEmpty
  \/ ValidateNextArgument
  \/ ResolveNextFileAction
  \/ CallNext
  \/ ActionCallsRunSuper
  \/ ActionReturns

TaskSpec == TaskInit /\ [][TaskNext]_allVars

\* ------------------------------------------------------------------ C11
\* The parameters of the task being run.
TaskParameters ==
  {task.namedParameters[n] : n \in DOMAIN task.namedParameters}
    \cup Range(task.positionalParameters)

\* The value the arguments run was given have for a name, if any.
GivenValues(name) ==
  {task.given[i][2] : i \in {j \in 1..Len(task.given) :
                               task.given[j][1] = name}}

\* A parameter declared without a default value has no value in the
\* arguments run was given: no entry, or an entry that is undefined.
RequiredParameterMissing ==
  \E p \in TaskParameters :
    p.defaultValue = Undefined /\ GivenValues(p.name) \subseteq {Undefined}

\* As RequiredParameterMissing, for an entry that is there and undefined.
RequiredParameterGivenUndefined ==
  \E p \in TaskParameters :
    p.defaultValue = Undefined /\ Undefined \in GivenValues(p.name)

\* An argument run was given has a value of another type than its
\* parameter's.
InvalidArgumentSupplied ==
  \E p \in TaskParameters : \E v \in GivenValues(p.name) \ {Undefined} :
    ~isParameterValueValid(p.parameterType, v, p.isVariadic)

\* What run does before any action: it is validating, or has thrown.
NoActionAndNotPastValidation ==
  /\ invoked = <<>>
  /\ taskPc \in {"start", "validate", "threw"}

\* With the required parameter's entry there and undefined, run throws in
\* its validation (the part of C11 the code does implement).
ThrowsBeforeAnyActionWhenEntryGiven ==
  (isEmpty(task.actions) \/ RequiredParameterGivenUndefined
     \/ InvalidArgumentSupplied)
    => NoActionAndNotPastValidation

\* C11: whenever the task is empty, a parameter declared without a
\* default value is missing from the arguments run was given, or a given
\* argument has an invalid type for its parameter, run invokes no task
\* action (it throws before).
C11_ThrowsBeforeAnyAction ==
  (isEmpty(task.actions) \/ RequiredParameterMissing
     \/ InvalidArgumentSupplied)
    => invoked = <<>>

\* ------------------------------------------------------------------ C12
\* Every action that was a module path is now that module's function.
FileActionsResolved ==
  \A i \in 1..Len(actions) :
    /\ TypeOfAction(actions[i].action) # "string"
    /\ TypeOfAction(task.actions[i].action) = "string"
         => actions[i].action = Import(task.actions[i].action).default

\* The k-th invocation is the one run itself makes: of the last action,
\* with run's arguments.
InvokedByRun(k) ==
  /\ invoked[k].callback = 0
  /\ invoked[k].currentIndex = Len(task.actions) - 1
  /\ invoked[k].taskArguments = taskArguments

\* The k-th invocation is the one the (k-1)-th call of a callback makes: of
\* the action below the one that called it, with the arguments it passed.
InvokedByCallback(k) ==
  /\ invoked[k].callback = k - 1
  /\ callbacks[k - 1].from = invoked[k].currentIndex + 1
  /\ callbacks[k - 1].taskArguments = invoked[k].taskArguments

\* C12: the first action invoked is the last of the list, with run's
\* arguments; every other invocation is made by a call of the runSuper
\* callback of the action one index above, with the arguments passed to
\* it; an action has a runSuper callback exactly when its index is not 0;
\* and when an action is invoked no action is a module path any more.
C12_ActionsRunFromLastThroughRunSuper ==
  /\ Len(invoked) <= Len(callbacks) + 1
  /\ invoked # <<>> => FileActionsResolved
  /\ \A k \in 1..Len(invoked) :
       /\ invoked[k].runSuper = (invoked[k].currentIndex > 0)
       /\ IF k = 1 THEN InvokedByRun(k) ELSE InvokedByCallback(k)

\* A finished run of three actions, the last of them a module path, whose
\* actions ran from index 2 down to index 0, the one at index 1 with
\* other arguments than run's.
C12_Witness ==
  /\ taskPc = "done"
  /\ Len(task.actions) = 3
  /\ TypeOfAction(task.actions[3].action) = "string"
  /\ Len(invoked) = 3
  /\ invoked[1].currentIndex = 2
  /\ invoked[3].currentIndex = 0
  /\ invoked[2].taskArguments # taskArguments
  /\ ~invoked[3].runSuper

\* ------------------------------------------------------------------ C13
\* The contracts decodeBytecodes' loop has handled that have no code.
DecodedAbstractIds == {cid \in DecodedIds : ~HasCode(NodeOf(cid))}

\* C13: custom errors are modelled whether or not the contract has code.
\* Every contract the loop has handled, abstract (empty bytecode.object)
\* or not, has exactly the errors that could be built from the "error"
\* entries of its ABI, in order, and an abstract one has no Bytecode.
C13_CustomErrorsOfAbstractContracts ==
  /\ \A cid \in DecodedAbstractIds :
       /\ contractIdToContract[cid].customErrors =
            BuildableErrors(EmittedFor(NodeOf(cid)).abi)
       /\ BytecodesOf(bytecodes, cid) = {}
  /\ \A cid \in DecodedIds \ DecodedAbstractIds :
       contractIdToContract[cid].customErrors =
         BuildableErrors(EmittedFor(NodeOf(cid)).abi)

\* C13 witness: a list returned after an abstract contract, whose ABI has
\* an error that cannot be built before one that can, got the latter.
C13_Witness ==
  /\ DecodeBytecodesReturned
  /\ \E cid \in DecodedAbstractIds :
       /\ UnbuildableErrors(EmittedFor(NodeOf(cid)).abi) # <<>>
       /\ contractIdToContract[cid].customErrors # <<>>
       /\ BytecodesOf(bytecodes, cid) = {}

====
